---- MODULE Spec2Model ----
(***************************************************************************)
(* EnCh (apps/ench/ench.py): an AppDaemon app that scans the entity store  *)
(* of the home-automation host for low battery levels and for entities in  *)
(* an "unavailable"/"unknown" state.                                       *)
(*                                                                         *)
(* Strings the code transforms (entity ids, exclude entries, the notify    *)
(* target) are sequences of one-character strings, so that str.lower(),    *)
(* str.replace() and sorted() are computed character by character.         *)
(* A dict is a function whose DOMAIN is the set of keys present; a key     *)
(* bound to None (dict.get() on a missing key) is a key left out.          *)
(***************************************************************************)
EXTENDS Integers, Sequences, FiniteSets, TLC

(* ------------------------------------------------------------------ *)
(* Bounds of the model                                                  *)
(* ------------------------------------------------------------------ *)

\* most entities the entity store holds at once
MaxEntities == 2

\* most get_state(entity_id=...) calls that raise TypeError in one run
MaxFail == 1

(* ------------------------------------------------------------------ *)
(* Characters and strings                                               *)
(* ------------------------------------------------------------------ *)

UpperCase ==
  <<"A", "B", "C", "D", "E", "F", "G", "H", "I", "J", "K", "L", "M",
    "N", "O", "P", "Q", "R", "S", "T", "U", "V", "W", "X", "Y", "Z">>

LowerCase ==
  <<"a", "b", "c", "d", "e", "f", "g", "h", "i", "j", "k", "l", "m",
    "n", "o", "p", "q", "r", "s", "t", "u", "v", "w", "x", "y", "z">>

\* the characters in code point order, which is the order sorted() uses
CodeOrder ==
  <<".", "/", "0", "1", "2", "3", "4", "5", "6", "7", "8", "9">>
  \o UpperCase \o <<"_">> \o LowerCase

Range(s) == { s[i] : i \in DOMAIN s }

Ord(c) == CHOOSE i \in DOMAIN CodeOrder : CodeOrder[i] = c

LowerChar(c) ==
  IF \E i \in DOMAIN UpperCase : UpperCase[i] = c
  THEN LowerCase[CHOOSE i \in DOMAIN UpperCase : UpperCase[i] = c]
  ELSE c

\* str.lower()
Lower(s) == [i \in 1..Len(s) |-> LowerChar(s[i])]

\* str.replace(old, new) for one-character old and new: every occurrence
Replace(s, old, new) == [i \in 1..Len(s) |-> IF s[i] = old THEN new ELSE s[i]]

\* a < b on str: lexicographic by code point, a proper prefix is smaller
StrLess(a, b) ==
  \E i \in 1..(Len(b)) :
     /\ \A j \in 1..(i - 1) : j <= Len(a) /\ a[j] = b[j]
     /\ \/ i = Len(a) + 1
        \/ i <= Len(a) /\ Ord(a[i]) < Ord(b[i])

RECURSIVE Sorted(_)
\* sorted(S) for a collection of distinct strings
Sorted(S) ==
  IF S = {} THEN <<>>
  ELSE LET m == CHOOSE x \in S : \A y \in S \ {x} : StrLess(x, y)
       IN  <<m>> \o Sorted(S \ {m})

(* ------------------------------------------------------------------ *)
(* Program constants                                                    *)
(* ------------------------------------------------------------------ *)

BATTERY_MIN_LEVEL == 20

INTERVAL_BATTERY_MIN == 180

INTERVAL_UNAVAILABLE_MIN == 60

\* timedelta(seconds=120): the first run of a check after initialize
FIRST_RUN_DELAY == 120

EXCLUDE ==
  { <<"b", "i", "n", "a", "r", "y", "_", "s", "e", "n", "s", "o", "r", ".",
      "u", "p", "d", "a", "t", "e", "r">>,
    <<"p", "e", "r", "s", "i", "s", "t", "e", "n", "t", "_", "n", "o", "t",
      "i", "f", "i", "c", "a", "t", "i", "o", "n", ".", "c", "o", "n", "f",
      "i", "g", "_", "e", "n", "t", "r", "y", "_", "d", "i", "s", "c", "o",
      "v", "e", "r", "y">> }

BAD_STATES == {"unavailable", "unknown"}

ICONS == [battery |-> "battery", unavailable |-> "unavailable", unknown |-> "unknown"]

APP_ICON == "app"

(* ------------------------------------------------------------------ *)
(* Inputs: the app's arguments and the host's entity store              *)
(* ------------------------------------------------------------------ *)

\* "Sensor.A"
SensorA == <<"S", "e", "n", "s", "o", "r", ".", "A">>

\* "sensor.b"
SensorB == <<"s", "e", "n", "s", "o", "r", ".", "b">>

\* "binary_sensor.updater"
Updater ==
  <<"b", "i", "n", "a", "r", "y", "_", "s", "e", "n", "s", "o", "r", ".",
    "u", "p", "d", "a", "t", "e", "r">>

\* the entity ids the host may hold
EntityIds == {SensorA, SensorB, Updater}

\* "notify.me"
NotifyMe == <<"n", "o", "t", "i", "f", "y", ".", "m", "e">>

\* "SENSOR.A", a user's exclude entry
UserEntry == <<"S", "E", "N", "S", "O", "R", ".", "A">>

NoKeys == [k \in {} |-> 0]

\* the values a key of a section may carry
SectionValues ==
  [interval_min |-> {30}, interval |-> {2}, min_level |-> {10}]

\* the mappings over one of the key sets Ds
Sections(Ds) ==
  UNION { { f \in [D -> UNION { SectionValues[k] : k \in D }] :
              \A k \in D : f[k] \in SectionValues[k] } : D \in Ds }

BatterySections ==
  Sections({ {}, {"interval_min"}, {"interval"}, {"interval_min", "interval"},
             {"min_level"} })

UnavailableSections ==
  Sections({ {}, {"interval_min"}, {"interval"}, {"interval_min", "interval"} })

\* self.args: every key is optional
Args ==
  { n @@ b @@ u @@ x :
      n \in {NoKeys} \cup { "notify" :> t : t \in {NotifyMe} },
      b \in {NoKeys} \cup { "battery" :> s : s \in BatterySections },
      u \in {NoKeys} \cup { "unavailable" :> s : s \in UnavailableSections },
      x \in {NoKeys} \cup { "exclude" :> l : l \in {<<UserEntry>>} } }

EntityStates == {"on", "unavailable", "unknown"}

BatteryLevels == {0, 20}

\* what get_state(entity_id=e, attribute="all") returns for one entity: an
\* entity the host has lost contact with is reported without attributes
EntityValues ==
  { v \in [ state : EntityStates,
            attributes : {NoKeys} \cup { "battery_level" :> l : l \in BatteryLevels } ] :
      v.state \in {"unavailable", "unknown"} => v.attributes = NoKeys }

VARIABLES
  args,      \* self.args
  pc,        \* "new", then "ready" (initialize returned) or "raised"
  cfg,       \* self.cfg
  timers,    \* the run_every registrations, in order
  warned,    \* the "interval" deprecation warning was logged
  store,     \* the host's entity store: entity id -> state and attributes
  check,     \* the callback that has just returned: "none", "battery", "unavailable"
  outcome,   \* "ok" when it returned, "raised" when it raised
  results,   \* its results list
  logged,    \* the entities whose fetch failure it logged
  calls      \* its call_service calls

vars == <<args, pc, cfg, timers, warned, store, check, outcome, results, logged, calls>>

Init ==
  /\ args \in Args
  /\ pc = "new"
  /\ cfg = NoKeys
  /\ timers = <<>>
  /\ warned = FALSE
  /\ store = NoKeys
  /\ check = "none"
  /\ outcome = "ok"
  /\ results = <<>>
  /\ logged = <<>>
  /\ calls = <<>>

(* ------------------------------------------------------------------ *)
(* initialize                                                           *)
(* ------------------------------------------------------------------ *)

\* d.get(k, default)
Get(d, k, default) == IF k \in DOMAIN d THEN d[k] ELSE default

\* the minutes between two runs that a section asks for
IntervalMin(section, default) ==
  IF "interval_min" \in DOMAIN section THEN section["interval_min"]
  ELSE IF "interval" \in DOMAIN section THEN section["interval"] * 60
  ELSE default

\* if "battery" in self.args
BatteryGiven(a) == "battery" \in DOMAIN a

\* if self.args.get("unavailable"): a missing key and an empty mapping are falsy
UnavailableGiven(a) ==
  "unavailable" \in DOMAIN a /\ DOMAIN a["unavailable"] # {}

\* self.cfg["battery"]
BatteryCfg(a) ==
  [ interval_min |-> IntervalMin(a["battery"], INTERVAL_BATTERY_MIN),
    min_level    |-> Get(a["battery"], "min_level", BATTERY_MIN_LEVEL) ]

\* self.cfg["unavailable"]
UnavailableCfg(a) ==
  [ interval_min |-> IntervalMin(a["unavailable"], INTERVAL_UNAVAILABLE_MIN) ]

\* MergeExclude with the user entries merged as given, not lowered: the
\* slip C3 rules out
MergeExclude_AsGiven(a) ==
  Sorted(EXCLUDE \cup Range(Get(a, "exclude", <<>>)))

\* self.cfg["exclude"]: the defaults and the lowered user entries, sorted
MergeExclude(a) ==
  Sorted(EXCLUDE \cup { Lower(e) : e \in Range(Get(a, "exclude", <<>>)) })

\* self.run_every(callback, self.datetime() + timedelta(seconds=120), interval_min * 60)
RunEvery(callback, interval_min) ==
  [ callback |-> callback, start |-> FIRST_RUN_DELAY, interval |-> interval_min * 60 ]

\* The whole of initialize.  battery_cfg is bound only inside the battery
\* branch, so the closing test  "interval" in battery_cfg  raises
\* UnboundLocalError when no battery section was given; everything before it
\* (self.cfg, the timers, self.adu) has taken effect by then.
Initialize ==
  /\ pc = "new"
  /\ cfg' = (IF "notify" \in DOMAIN args THEN "notify" :> args["notify"] ELSE NoKeys)
            @@ ("show_friendly_name" :> TRUE)
            @@ (IF BatteryGiven(args) THEN "battery" :> BatteryCfg(args) ELSE NoKeys)
            @@ (IF UnavailableGiven(args)
                THEN "unavailable" :> UnavailableCfg(args) ELSE NoKeys)
            @@ ("exclude" :> MergeExclude(args))
  /\ timers' = (IF BatteryGiven(args)
                THEN <<RunEvery("check_battery", BatteryCfg(args).interval_min)>>
                ELSE <<>>)
               \o (IF UnavailableGiven(args)
                   THEN <<RunEvery("check_unavailable", UnavailableCfg(args).interval_min)>>
                   ELSE <<>>)
  /\ IF BatteryGiven(args)
     THEN /\ pc' = "ready"
          /\ warned' = ("interval" \in DOMAIN args["battery"])
     ELSE /\ pc' = "raised"
          /\ warned' = FALSE
  /\ UNCHANGED <<args, store, check, outcome, results, logged, calls>>

(* ------------------------------------------------------------------ *)
(* The checks                                                           *)
(* ------------------------------------------------------------------ *)

\* the filter of both checks: x.lower() not in self.cfg["exclude"]
NotExcluded(x, c) == Lower(x) \notin Range(c["exclude"])

\* sorted(entities)
Scanned(s, c) == Sorted({ x \in DOMAIN s : NotExcluded(x, c) })

\* if battery_level and battery_level <= self.cfg["battery"]["min_level"]:
\* a missing battery_level (None) and a battery_level of 0 are both falsy
IsLow(attrs, c) ==
  /\ "battery_level" \in DOMAIN attrs["attributes"]
  /\ attrs["attributes"]["battery_level"] # 0
  /\ attrs["attributes"]["battery_level"] <= c["battery"]["min_level"]

\* if state in BAD_STATES and entity not in results
IsBad(attributes, entity, res) ==
  attributes["state"] \in BAD_STATES /\ entity \notin Range(res)

\* the locals of a run before its loop: attrs is not bound yet
LoopStart ==
  [ bound |-> FALSE, attrs |-> NoKeys, results |-> <<>>, logged |-> <<>>,
    raised |-> FALSE ]

\* try: attrs = self.get_state(entity_id=entity, attribute="all")
\* except TypeError: log, and go on with attrs as it was
Fetch(st, entity, fails, s) ==
  IF entity \in fails
  THEN [st EXCEPT !.logged = Append(@, entity)]
  ELSE [st EXCEPT !.bound = TRUE, !.attrs = s[entity]]

RECURSIVE BatteryLoop(_, _, _, _, _)
\* for entity in sorted(entities) of check_battery; reading attrs while it
\* is unbound raises UnboundLocalError out of the run
BatteryLoop(ents, fails, st, s, c) ==
  IF ents = <<>> THEN st
  ELSE LET entity == Head(ents)
           st1 == Fetch(st, entity, fails, s)
       IN  IF ~st1.bound THEN [st1 EXCEPT !.raised = TRUE]
           ELSE BatteryLoop(Tail(ents), fails,
                            IF IsLow(st1.attrs, c)
                            THEN [st1 EXCEPT !.results = Append(@, entity)]
                            ELSE st1,
                            s, c)

RECURSIVE UnavailableLoop(_, _, _, _)
\* for entity in sorted(entities) of check_unavailable
UnavailableLoop(ents, fails, st, s) ==
  IF ents = <<>> THEN st
  ELSE LET entity == Head(ents)
           st1 == Fetch(st, entity, fails, s)
       IN  IF ~st1.bound THEN [st1 EXCEPT !.raised = TRUE]
           ELSE UnavailableLoop(Tail(ents), fails,
                                IF IsBad(st1.attrs, entity, st1.results)
                                THEN [st1 EXCEPT !.results = Append(@, entity)]
                                ELSE st1,
                                s)

\* Notify without the test on results: the slip C4 rules out
Notify_EmptyToo(c, icon, res) ==
  IF "notify" \in DOMAIN c /\ c["notify"] # <<>>
  THEN << [ service  |-> Replace(c["notify"], ".", "/"),
            icon     |-> icon,
            count    |-> Len(res),
            entities |-> res ] >>
  ELSE <<>>

\* if self.cfg["notify"] and results: self.call_service(...)
Notify(c, icon, res) ==
  IF "notify" \in DOMAIN c /\ c["notify"] # <<>> /\ res # <<>>
  THEN << [ service  |-> Replace(c["notify"], ".", "/"),
            icon     |-> icon,
            count    |-> Len(res),
            entities |-> res ] >>
  ELSE <<>>

\* the host has a timer registered for the callback
Scheduled(callback) == \E i \in DOMAIN timers : timers[i].callback = callback

\* the sets of entities whose fetch may raise TypeError in one run
FailureSets(ents) == { F \in SUBSET Range(ents) : Cardinality(F) <= MaxFail }

\* what a run leaves behind
Returned(name, st, icon) ==
  /\ check' = name
  /\ outcome' = IF st.raised THEN "raised" ELSE "ok"
  /\ results' = st.results
  /\ logged' = st.logged
  /\ calls' = IF st.raised THEN <<>> ELSE Notify(cfg, icon, st.results)

\* a timer fires check_battery
CheckBattery ==
  /\ Scheduled("check_battery")
  /\ \E fails \in FailureSets(Scanned(store, cfg)) :
        Returned("battery",
                 BatteryLoop(Scanned(store, cfg), fails, LoopStart, store, cfg),
                 ICONS.battery)
  /\ UNCHANGED <<args, pc, cfg, timers, warned, store>>

\* a timer fires check_unavailable
CheckUnavailable ==
  /\ Scheduled("check_unavailable")
  /\ \E fails \in FailureSets(Scanned(store, cfg)) :
        Returned("unavailable",
                 UnavailableLoop(Scanned(store, cfg), fails, LoopStart, store),
                 APP_ICON)
  /\ UNCHANGED <<args, pc, cfg, timers, warned, store>>

(* ------------------------------------------------------------------ *)
(* The host: the entity store changes between two callbacks             *)
(* ------------------------------------------------------------------ *)

\* the record of the callback that returned is dropped
Idle ==
  /\ check' = "none"
  /\ outcome' = "ok"
  /\ results' = <<>>
  /\ logged' = <<>>
  /\ calls' = <<>>

\* an entity appears or changes its state or attributes
SetEntity(e, v) ==
  /\ e \in DOMAIN store \/ Cardinality(DOMAIN store) < MaxEntities
  /\ store' = [x \in DOMAIN store \cup {e} |-> IF x = e THEN v ELSE store[x]]
  /\ store' # store
  /\ Idle
  /\ UNCHANGED <<args, pc, cfg, timers, warned>>

\* an entity disappears
RemoveEntity(e) ==
  /\ e \in DOMAIN store
  /\ store' = [x \in DOMAIN store \ {e} |-> store[x]]
  /\ Idle
  /\ UNCHANGED <<args, pc, cfg, timers, warned>>

Next ==
  \/ Initialize
  \/ CheckBattery
  \/ CheckUnavailable
  \/ \E e \in EntityIds, v \in EntityValues : SetEntity(e, v)
  \/ \E e \in EntityIds : RemoveEntity(e)

Spec == Init /\ [][Next]_vars

(* ------------------------------------------------------------------ *)
(* What the documentation promises, stated without the code's cfg       *)
(* ------------------------------------------------------------------ *)

\* the user's exclude entries as given in the arguments
UserExclude == Range(Get(args, "exclude", <<>>))

\* e is excluded: it equals a default or a user entry up to letter case
DocExcluded(e) == \E x \in EXCLUDE \cup UserExclude : Lower(e) = Lower(x)

\* the min_level in force: the battery section's, else the default
DocMinLevel == Get(Get(args, "battery", NoKeys), "min_level", BATTERY_MIN_LEVEL)

\* the entities with a battery_level at or below min_level
DocLow ==
  { e \in DOMAIN store :
      /\ ~DocExcluded(e)
      /\ "battery_level" \in DOMAIN store[e].attributes
      /\ store[e].attributes["battery_level"] <= DocMinLevel }

\* the entities in one of the two bad states
DocBad ==
  { e \in DOMAIN store :
      ~DocExcluded(e) /\ store[e].state \in {"unavailable", "unknown"} }

\* the minutes between two runs that the documentation gives a section
DocMinutes(section, default) ==
  IF "interval_min" \in DOMAIN section THEN section["interval_min"]
  ELSE IF "interval" \in DOMAIN section THEN section["interval"] * 60
  ELSE default

\* the timers registered for a callback
TimersOf(callback) == { i \in DOMAIN timers : timers[i].callback = callback }

\* "notify/me"
NotifySlashMe == <<"n", "o", "t", "i", "f", "y", "/", "m", "e">>

(* ------------------------------------------------------------------ *)
(* C1                                                                   *)
(* ------------------------------------------------------------------ *)

\* C1: a run of check_battery in which every fetch succeeded reports exactly
\* the non-excluded entities whose battery_level is at or below min_level,
\* an entity at battery_level 0 included.
C1_LowBatteryExactly ==
  (check = "battery" /\ outcome = "ok" /\ logged = <<>>)
    => Range(results) = DocLow

(* ------------------------------------------------------------------ *)
(* C2                                                                   *)
(* ------------------------------------------------------------------ *)

\* C2: a run of check_unavailable that returns reports exactly the
\* non-excluded entities whose state is "unavailable" or "unknown"; an
\* entity in any other state is never reported.
C2_UnavailableExactly ==
  (check = "unavailable" /\ outcome = "ok") => Range(results) = DocBad

(* ------------------------------------------------------------------ *)
(* C3                                                                   *)
(* ------------------------------------------------------------------ *)

\* C3: an entity that equals a built-in default or a user exclude entry up
\* to letter case is never in the results or in a notification of either
\* check, and the exclude list built by initialize keeps every default.
C3_ExcludedNeverReported ==
  /\ pc # "new" => EXCLUDE \subseteq Range(cfg["exclude"])
  /\ \A e \in DOMAIN store :
        DocExcluded(e) =>
          /\ e \notin Range(results)
          /\ \A i \in DOMAIN calls : e \notin Range(calls[i].entities)

\* C3 witness: check_unavailable reported an entity while the store held an
\* entity in a bad state that a user entry excludes by a case-insensitive
\* match only.
C3_Witness ==
  /\ check = "unavailable"
  /\ results # <<>>
  /\ calls # <<>>
  /\ \E e \in DOMAIN store :
        /\ store[e].state \in BAD_STATES
        /\ e \notin UserExclude \cup EXCLUDE
        /\ Lower(e) # e
        /\ \E x \in UserExclude : Lower(x) # x /\ Lower(x) = Lower(e)

(* ------------------------------------------------------------------ *)
(* C4                                                                   *)
(* ------------------------------------------------------------------ *)

C5_TimersAsConfigured ==
  pc # "new" =>
    /\ Cardinality(TimersOf("check_battery")) =
         (IF "battery" \in DOMAIN args THEN 1 ELSE 0)
    /\ Cardinality(TimersOf("check_unavailable")) =
         (IF "unavailable" \in DOMAIN args THEN 1 ELSE 0)
    /\ \A i \in TimersOf("check_battery") :
         /\ timers[i].start = 120
         /\ timers[i].interval = DocMinutes(args["battery"], 180) * 60
    /\ \A i \in TimersOf("check_unavailable") :
         /\ timers[i].start = 120
         /\ timers[i].interval = DocMinutes(args["unavailable"], 60) * 60

(* ------------------------------------------------------------------ *)
(* C6                                                                   *)
(* ------------------------------------------------------------------ *)

\* C6: initialize never raises, whichever of the optional sections are
\* given.
C6_InitializeCompletes == pc # "raised"

(* ------------------------------------------------------------------ *)
(* C7                                                                   *)
(* ------------------------------------------------------------------ *)

\* C7: a run in which the fetch of an entity failed with TypeError still
\* completes, and does not report an entity whose fetch failed.
C7_FetchFailureTolerated ==
  (check # "none" /\ logged # <<>>) =>
    /\ outcome = "ok"
    /\ \A e \in Range(logged) : e \notin Range(results)

(* ------------------------------------------------------------------ *)
(* C8                                                                   *)
(* ------------------------------------------------------------------ *)

\* C8: a run of a check leaves the arguments, the configuration, the timers
\* and the entity store unchanged, and its result depends only on the
\* entity store: a run of the same check over the same store as the run
\* before it ends the same way with the same results.
C8_RunsStateless ==
  [][ check' # "none" =>
        /\ args' = args /\ cfg' = cfg /\ timers' = timers /\ store' = store
        /\ check = check' => (results' = results /\ outcome' = outcome)
    ]_vars

====
